---- MODULE Spec2Model ----
(***************************************************************************)
(* Model of script.js: the defect list kept by the page (add / remove),    *)
(* and the click handler of generatePdfBtn that lays the report out on     *)
(* jsPDF pages, awaits one image probe per defect, stamps the footers and  *)
(* saves the document.                                                     *)
(*                                                                         *)
(* Lengths are kept in half millimetres (the source uses millimetres and   *)
(* the one fractional advance 4.5), so every cursor value of the layout is *)
(* an integer: mm(x) is x millimetres.                                     *)
(*                                                                         *)
(* JavaScript runs one handler at a time, to completion.  The click        *)
(* handler gives the event loop back only at `await` (script.js:551) and   *)
(* at its end, so an action of the program is a whole handler: the click   *)
(* up to its first await, or the continuation after an image event up to   *)
(* the next await or the end.  The statements in between are the steps     *)
(* of Step; RunToAwait takes them one after the other.                     *)
(***************************************************************************)
EXTENDS Integers, Sequences, FiniteSets, TLC

\* ------------------------------------------------------------------ bounds
MaxClicks == 4      \* clicks of the user in one session
MaxRuns == 2        \* of them, clicks on "generate"
MaxAdds == 2        \* of them, clicks on "add defect"
MaxClock == 1       \* seconds the clock may advance while the footers are stamped
LastTick == 2       \* the last page before whose stamp the clock may advance
MaxPixels == 10     \* the least widths and heights of an image, in pixels

RunIds == 1..MaxRuns

\* --------------------------------------------------------------- geometry
mm(x) == 2 * x

pageWidth == mm(210)
pageHeight == mm(297)
margin == mm(20)
contentWidth == pageWidth - (margin * 2)
maxImgWidth == contentWidth
\* A cap on the image height that is more than a page holds.
maxImgHeightOverPage == mm(280)
maxImgHeight == mm(80)

\* The value of 0 * Infinity (script.js:556-562 with a 0 x 0 image); no
\* length of the layout is negative, so -1 is free to stand for it.
NaN == -1

\* a + b and a > b of JavaScript numbers: NaN is absorbing in +, and every
\* comparison with NaN is false.
Plus(a, b) == IF a = NaN \/ b = NaN THEN NaN ELSE a + b
Gt(a, b) == a # NaN /\ b # NaN /\ a > b

\* ---------------------------------------------------- JavaScript numbers
\* The image scaling (script.js:560-562) divides and multiplies in IEEE-754
\* binary64.  A positive number is kept as its digits: b, the binary digits
\* of an integer, most significant first and without leading zeros, and e,
\* the weight of its last digit, so that the value is b * 2^e.  A binary64
\* has Precision digits.
Precision == 53

RECURSIVE IntBits(_)
IntBits(n) == IF n = 0 THEN <<>> ELSE Append(IntBits(n \div 2), n % 2)

RECURSIVE BitsInt(_)
BitsInt(b) == IF b = <<>> THEN 0 ELSE 2 * BitsInt(SubSeq(b, 1, Len(b) - 1)) + b[Len(b)]

Zeros(n) == [j \in 1..n |-> 0]
Num(n) == [nan |-> FALSE, b |-> IntBits(n), e |-> 0]

\* 0 * Infinity.
NotANumber == [nan |-> TRUE, b |-> <<>>, e |-> 0]

\* The digits are worked on Chunk at a time.
Chunk == 8

\* Without the leading zeros.
Strip(b) ==
    IF \A j \in 1..Len(b) : b[j] = 0 THEN <<>>
    ELSE SubSeq(b, CHOOSE j \in 1..Len(b) : b[j] = 1 /\ \A m \in 1..(j - 1) : b[m] = 0, Len(b))

\* n as m digits, n < 2^m.
Padded(n, m) == Zeros(m - Len(IntBits(n))) \o IntBits(n)

\* b + 1 on digits: the last 0 becomes 1, the 1s after it 0.
IncBits(b) ==
    IF \A j \in 1..Len(b) : b[j] = 1 THEN <<1>> \o Zeros(Len(b))
    ELSE LET k == CHOOSE j \in 1..Len(b) : b[j] = 0 /\ \A m \in (j + 1)..Len(b) : b[m] = 1
         IN  [j \in 1..Len(b) |-> IF j < k THEN b[j] ELSE IF j = k THEN 1 ELSE 0]

\* b * n on digits, n a small positive integer: from the last digits up,
\* with a carry; j digits of b are still to do.
RECURSIVE MulFrom(_, _, _, _)
MulFrom(b, n, j, carry) ==
    IF j = 0 THEN IntBits(carry)
    ELSE LET m == IF j < Chunk THEN j ELSE Chunk
             c == BitsInt(SubSeq(b, j - m + 1, j)) * n + carry
         IN  MulFrom(b, n, j - m, c \div 2^m) \o Padded(c % 2^m, m)

MulBits(b, n) == MulFrom(b, n, Len(b), 0)

\* -1, 0, 1 as x < y, x = y, x > y: on digit strings of the same length,
\* the first digit that differs decides.
CmpBits(a, b) ==
    LET differ == {j \in 1..Len(a) : a[j] # b[j]}
        first == CHOOSE j \in differ : \A k \in differ : j <= k
    IN  IF differ = {} THEN 0 ELSE IF a[first] < b[first] THEN -1 ELSE 1

Cmp(x, y) ==
    LET e == IF x.e < y.e THEN x.e ELSE y.e
        a == x.b \o Zeros(x.e - e)
        b == y.b \o Zeros(y.e - e)
    IN  IF Len(a) # Len(b) THEN (IF Len(a) < Len(b) THEN -1 ELSE 1)
        ELSE CmpBits(a, b)

\* Round to nearest, ties to even: the digits b of the kept part (weight e
\* of the last one) and how the dropped part compares with half a unit of
\* that last digit (half = -1 below, 0 a tie, 1 above).
RoundEven(b, e, half) ==
    IF half = 1 \/ (half = 0 /\ b[Len(b)] = 1)
    THEN LET up == IncBits(b)
         IN  IF Len(up) > Len(b)
             THEN [nan |-> FALSE, b |-> SubSeq(up, 1, Len(b)), e |-> e + 1]
             ELSE [nan |-> FALSE, b |-> up, e |-> e]
    ELSE [nan |-> FALSE, b |-> b, e |-> e]

\* The binary64 nearest to the exact x (any number of digits).
Round(x) ==
    IF Len(x.b) <= Precision
    THEN [nan |-> FALSE, b |-> x.b \o Zeros(Precision - Len(x.b)),
          e |-> x.e - (Precision - Len(x.b))]
    ELSE LET keep == SubSeq(x.b, 1, Precision)
             rest == SubSeq(x.b, Precision + 1, Len(x.b))
             tail == SubSeq(rest, 2, Len(rest))
             half == IF rest[1] = 0 THEN -1
                     ELSE IF tail = Zeros(Len(tail)) THEN 0 ELSE 1
         IN  RoundEven(keep, x.e + Len(rest), half)

\* a / b in binary64, a and b positive integers: long division until
\* Precision digits are out, then the remainder decides the rounding.
RECURSIVE DivFrom(_, _, _, _)
DivFrom(b, e, rem, d) ==
    IF Len(b) = Precision
    THEN RoundEven(b, e, IF 2 * rem < d THEN -1 ELSE IF 2 * rem = d THEN 0 ELSE 1)
    ELSE LET m == IF Precision - Len(b) < Chunk THEN Precision - Len(b) ELSE Chunk
             digits == Padded((rem * 2^m) \div d, m)
         IN  DivFrom(IF b = <<>> THEN Strip(digits) ELSE b \o digits,
                     e - m, (rem * 2^m) % d, d)

FDiv(a, d) == DivFrom(IntBits(a \div d), 0, a % d, d)

\* n * x in binary64, n a positive integer and x a binary64.
FMul(n, x) == Round([nan |-> FALSE, b |-> MulBits(x.b, n), e |-> x.e])

\* Math.max for Math.min.
FMax(x, y) == IF Cmp(x, y) <= 0 THEN y ELSE x

\* Math.min of two binary64.
FMin(x, y) == IF Cmp(x, y) <= 0 THEN x ELSE y

\* The layout keeps its cursor on a grid of half millimetres: x millimetres,
\* a binary64, to the nearest point of the grid.
ToGrid(x) ==
    LET drop == 0 - (x.e + 1)
        keep == SubSeq(x.b, 1, Len(x.b) - drop)
    IN  IF x.nan THEN NaN
        ELSE IF drop <= 0 THEN BitsInt(x.b \o Zeros(0 - drop))
        ELSE IF drop > Len(x.b) THEN 0
        ELSE BitsInt(keep) + x.b[Len(x.b) - drop + 1]

\* ------------------------------------------------------------------ texts
\* A text is n words, each w wide (in half millimetres at the font size it
\* is drawn in); the empty text has n = 0.  wordGap is the width of the
\* blank between two words of a line.
wordGap == 2

NoText == [n |-> 0, w |-> 0]
Words(t) == [j \in 1..t.n |-> t.w]

\* doc.splitTextToSize(text, maxWidth): greedy wrapping.  A line is the
\* pair <<first, last>> of the indices of its words; a word goes on the
\* current line while the line stays within maxWidth, and a line always
\* takes at least one word.
RECURSIVE WrapFrom(_, _, _, _, _)
WrapFrom(ws, maxWidth, first, last, used) ==
    IF last = Len(ws)
    THEN <<<<first, last>>>>
    ELSE IF used + wordGap + ws[last + 1] <= maxWidth
         THEN WrapFrom(ws, maxWidth, first, last + 1, used + wordGap + ws[last + 1])
         ELSE <<<<first, last>>>> \o WrapFrom(ws, maxWidth, last + 1, last + 1, ws[last + 1])

splitTextToSize(t, maxWidth) ==
    IF t.n = 0 THEN <<>> ELSE WrapFrom(Words(t), maxWidth, 1, 1, Words(t)[1])

\* ----------------------------------------------------------------- images
\* What the browser and jsPDF make of an image payload.  probe: the event
\* the Image element fires for it ("load", "error", or "none" when it fires
\* neither); width, height: img.width and img.height after the event (0, 0
\* unless it loaded); pdf: whether doc.addImage accepts the payload (jsPDF
\* reads the file's header itself, so it can accept bytes the browser
\* cannot decode, and reject a format the browser decodes).
ImageInfo(name) ==
    CASE name = "square"  -> [probe |-> "load",  width |-> 10,  height |-> 10,  pdf |-> TRUE]
      [] name = "wide"    -> [probe |-> "load",  width |-> 34,  height |-> 10,  pdf |-> TRUE]
      [] name = "corrupt" -> [probe |-> "error", width |-> 0,   height |-> 0,   pdf |-> FALSE]
      [] name = "cut"     -> [probe |-> "error", width |-> 0,   height |-> 0,   pdf |-> TRUE]
      [] OTHER            -> [probe |-> "none",  width |-> 0,   height |-> 0,   pdf |-> TRUE]

\* ----------------------------------------------------------------- inputs
\* The report form as the user left it (values as getFieldValue returns
\* them, already trimmed).
Forms ==
    { [companyName |-> "Acme", companyPhone |-> "555", companyEmail |-> "a@b",
       reportTitle |-> "", clientName |-> "Kim",
       clientAddress |-> [n |-> 20, w |-> mm(100)], inspectionDate |-> "2024-03-15",
       inspectorName |-> "Lee", inspectorCredentials |-> NoText,
       attendance |-> "Owner", occupancy |-> "", buildingType |-> "House",
       weatherCondition |-> "", disclaimer |-> [n |-> 3, w |-> mm(100)]],
      [companyName |-> "", companyPhone |-> "", companyEmail |-> "",
       reportTitle |-> "Survey", clientName |-> "",
       clientAddress |-> NoText, inspectionDate |-> "",
       inspectorName |-> "", inspectorCredentials |-> NoText,
       attendance |-> "", occupancy |-> "", buildingType |-> "",
       weatherCondition |-> "", disclaimer |-> NoText],
      [companyName |-> "Acme", companyPhone |-> "555", companyEmail |-> "",
       reportTitle |-> "", clientName |-> "Kim",
       clientAddress |-> [n |-> 40, w |-> mm(100)], inspectionDate |-> "2024-03-15",
       inspectorName |-> "Lee", inspectorCredentials |-> [n |-> 2, w |-> mm(100)],
       attendance |-> "", occupancy |-> "Vacant", buildingType |-> "",
       weatherCondition |-> "Rain", disclaimer |-> [n |-> 2, w |-> mm(40)]] }

\* What the defect form holds when "add defect" is clicked: the chosen
\* type, the chosen file ("" when none) and the trimmed description.
DefectForms ==
    { [defectType |-> "Crack", file |-> "square",  description |-> [n |-> 5, w |-> mm(100)]],
      [defectType |-> "Damp",  file |-> "wide",    description |-> [n |-> 9, w |-> mm(100)]],
      [defectType |-> "Mould", file |-> "corrupt", description |-> [n |-> 1, w |-> mm(40)]],
      [defectType |-> "Rot",   file |-> "cut",     description |-> [n |-> 1, w |-> mm(40)]],
      [defectType |-> "Rust",  file |-> "stuck",   description |-> [n |-> 1, w |-> mm(40)]],
      [defectType |-> "",      file |-> "square",  description |-> [n |-> 1, w |-> mm(40)]],
      [defectType |-> "Crack", file |-> "",        description |-> [n |-> 1, w |-> mm(40)]],
      [defectType |-> "Crack", file |-> "square",  description |-> NoText] }

NoDefect == [id |-> 0, defectType |-> "", imageData |-> "", description |-> NoText]

\* The form with every field empty.
NoForm ==
    [companyName |-> "", companyPhone |-> "", companyEmail |-> "",
     reportTitle |-> "", clientName |-> "",
     clientAddress |-> NoText, inspectionDate |-> "",
     inspectorName |-> "", inspectorCredentials |-> NoText,
     attendance |-> "", occupancy |-> "", buildingType |-> "",
     weatherCondition |-> "", disclaimer |-> NoText]

\* ------------------------------------------------------------------ state
VARIABLES
    defects,        \* script.js:23, the list of defect entries
    defectCounter,  \* script.js:26
    clicks,         \* number of clicks of the user so far
    adds,           \* number of clicks on addDefectBtn so far
    readers,        \* FileReaders started by addDefectBtn, not yet loaded
    form,           \* the report form
    status,         \* generationStatus: its class and the run that set it
    timers,         \* runs whose setTimeout(hideStatus, 5000) is pending
    started,        \* number of clicks on generatePdfBtn so far
    run             \* per click on generatePdfBtn: the locals of the handler

vars == <<defects, defectCounter, clicks, adds, readers, form, status, timers, started, run>>

\* The locals of one call of the click handler (script.js:262-665):
\*   pc, phase    the statement it is at; "check" before the checkNewPage
\*                of that statement, "write" after
\*   ret          what its last checkNewPage returned
\*   yPos         script.js:283
\*   doc          the pages of its jsPDF document, in order
\*   i, defect    the defect loop (script.js:526-527)
\*   k            the index of the forEach or footer loop it is in
\*   img          the Image element (script.js:547)
\*   imgWidth, imgHeight   script.js:556-562, millimetres in binary64
\*   totalPages   script.js:619
\*   saves        the calls of doc.save
\*   args         the (text, fontSize) of the addText call it is in
\*   input        `defects` as it was at the click
\*   meta         the form as it was at the click
\*   lowY, highY  the least and the greatest yPos it has had
IdleRun ==
    [pc |-> "idle", phase |-> "write", ret |-> FALSE, yPos |-> margin, doc |-> <<>>,
     i |-> 0, defect |-> NoDefect, k |-> 0,
     img |-> [src |-> "", width |-> 0, height |-> 0],
     imgWidth |-> Num(0), imgHeight |-> Num(0), totalPages |-> 0, saves |-> <<>>,
     args |-> [text |-> NoText, fontSize |-> 0], input |-> <<>>, meta |-> NoForm,
     lowY |-> margin, highY |-> margin]

Init ==
    /\ defects = <<>>
    /\ defectCounter = 0
    /\ clicks = 0
    /\ adds = 0
    /\ readers = {}
    /\ form \in Forms
    /\ status = [type |-> "hidden", run |-> 0]
    /\ timers = {}
    /\ started = 0
    /\ run = [r \in RunIds |-> IdleRun]

\* ------------------------------------------------------- defect management
\* addDefectBtn click (script.js:102-159): the three validations, then a
\* FileReader is started; its onload closes over the values read here.
AddDefectClick(f) ==
    /\ clicks < MaxClicks
    /\ adds < MaxAdds
    /\ f.defectType # ""
    /\ f.file # ""
    /\ f.description # NoText
    /\ clicks' = clicks + 1
    /\ adds' = adds + 1
    /\ readers' = readers \cup {[seq |-> adds + 1, defectType |-> f.defectType,
                                 file |-> f.file, description |-> f.description]}
    /\ UNCHANGED <<defects, defectCounter, form, status, timers, started, run>>

\* An onload that numbers the new defect by its place in the list.
ReaderOnloadIdFromLength(rd) ==
    /\ rd \in readers
    /\ defectCounter' = defectCounter + 1
    /\ defects' = Append(defects, [id |-> Len(defects) + 1, defectType |-> rd.defectType,
                                   imageData |-> rd.file, description |-> rd.description])
    /\ readers' = readers \ {rd}
    /\ UNCHANGED <<clicks, adds, form, status, timers, started, run>>

\* reader.onload (script.js:134-157): id: ++defectCounter, defects.push.
ReaderOnload(rd) ==
    /\ rd \in readers
    /\ defectCounter' = defectCounter + 1
    /\ defects' = Append(defects, [id |-> defectCounter + 1, defectType |-> rd.defectType,
                                   imageData |-> rd.file, description |-> rd.description])
    /\ readers' = readers \ {rd}
    /\ UNCHANGED <<clicks, adds, form, status, timers, started, run>>

\* removeDefect(id), confirmed (script.js:165-170): defects.filter(d => d.id !== id).
removeDefect(id) ==
    /\ clicks < MaxClicks
    /\ \E j \in 1..Len(defects) : defects[j].id = id
    /\ clicks' = clicks + 1
    /\ defects' = SelectSeq(defects, LAMBDA d : d.id # id)
    /\ UNCHANGED <<defectCounter, adds, readers, form, status, timers, started, run>>

\* hideStatus, run by a timer set at script.js:659 (script.js:238-240).
hideStatus(r) ==
    /\ r \in timers
    /\ timers' = timers \ {r}
    /\ status' = [status EXCEPT !.type = "hidden"]
    /\ UNCHANGED <<defects, defectCounter, clicks, adds, readers, form, started, run>>

\* ------------------------------------------------------------ the document
\* A draw operation of jsPDF (text, rect, line, addImage) as it lands on a
\* page: what was drawn, the y it was drawn at, and what identifies it
\* (n: defect or page number, s: the string, a and b: the words of a
\* wrapped line, the size of an image, the total of "Page i of N").
Op(kind, y, n, s, a, b) == [kind |-> kind, y |-> y, n |-> n, s |-> s, a |-> a, b |-> b]

\* Drawing on page p of document d; during composition the current page
\* is the last one.
Draw(d, p, ops) == [d EXCEPT ![p] = @ \o ops]
DrawLast(d, ops) == Draw(d, Len(d), ops)
addPage(d) == Append(d, <<>>)

\* requiredSpace of the checkNewPage call the handler is at.
RequiredSpace(s) ==
    CASE s.pc \in {"hdrClient", "hdrInspection", "hdrDisclaimer", "hdrDefects"} -> mm(20)
      [] s.pc = "table" -> mm(8)
      [] s.pc = "disclaimer" -> mm(5)
      [] s.pc = "heading" -> mm(100)
      [] s.pc = "desc" -> mm(6)
      [] s.pc = "sep" -> mm(15)
      [] s.pc = "addText" -> s.args.fontSize + mm(2)

\* A checkNewPage that breaks the page one unit early: >= for >.
NeedsNewPageAtLimit(y, requiredSpace) ==
    /\ Plus(y, requiredSpace) # NaN
    /\ Plus(y, requiredSpace) >= pageHeight - margin

\* checkNewPage(requiredSpace) (script.js:293-300).
NeedsNewPage(y, requiredSpace) == Gt(Plus(y, requiredSpace), pageHeight - margin)

checkNewPage(s) ==
    IF NeedsNewPage(s.yPos, RequiredSpace(s))
    THEN [s EXCEPT !.doc = addPage(@), !.yPos = margin, !.ret = TRUE, !.phase = "write"]
    ELSE [s EXCEPT !.ret = FALSE, !.phase = "write"]

\* A contact line that joins the two fields whether they are filled or not.
ContactInfoJoinedAlways(phone, email) == phone \o " | " \o email

\* contactInfo.join(' | ') (script.js:369-373).
ContactInfo(phone, email) ==
    IF phone # "" /\ email # "" THEN phone \o " | " \o email
    ELSE IF phone # "" THEN phone ELSE email

\* Document header (script.js:355-383), addLine included.
DocumentHeader(s) ==
    LET companyName == IF form.companyName # "" THEN form.companyName
                       ELSE "Inspection Company"
        reportTitle == IF form.reportTitle # "" THEN form.reportTitle
                       ELSE "Home Defect Inspection Report"
        hasContact == form.companyPhone # "" \/ form.companyEmail # ""
        y0 == s.yPos
        y1 == y0 + mm(10)
        y2 == IF hasContact THEN y1 + mm(8) ELSE y1
        y3 == y2 + mm(15)
    IN  [s EXCEPT
           !.doc = DrawLast(@,
               <<Op("company", y0, 0, companyName, 0, 0)>>
               \o (IF hasContact
                   THEN <<Op("contact", y1, 0,
                             ContactInfo(form.companyPhone, form.companyEmail), 0, 0)>>
                   ELSE <<>>)
               \o <<Op("title", y2 + mm(5), 0, reportTitle, 0, 0),
                    Op("rule", y3, 0, "", 0, 0)>>),
           !.yPos = y3 + mm(5),
           !.pc = "hdrClient",
           !.phase = "check"]

\* The title addSectionHeader is called with, and the statement after it.
HeaderTitle(s) ==
    CASE s.pc = "hdrClient" -> "Property & Client Details"
      [] s.pc = "hdrInspection" -> "Inspection Details"
      [] s.pc = "hdrDisclaimer" -> "General Disclaimer"
      [] s.pc = "hdrDefects" -> "Identified Defects (N Total)"

AfterHeader(s) ==
    CASE s.pc = "hdrClient" -> "client"
      [] s.pc = "hdrInspection" -> "table"
      [] s.pc = "hdrDisclaimer" -> IF form.disclaimer # NoText THEN "disclaimer" ELSE "defects"
      [] s.pc = "hdrDefects" -> "loop"

\* addSectionHeader(title) after its checkNewPage(20) (script.js:340-348);
\* the defects header carries defects.length (script.js:523), and the loop
\* after it starts at i = 0.
addSectionHeader(s) ==
    LET y == s.yPos + mm(5)
        total == IF s.pc = "hdrDefects" THEN Len(defects) ELSE 0
    IN  [s EXCEPT
           !.doc = DrawLast(@,
               <<Op("banner", y - mm(5), 0, "", 0, 0),
                 Op("section", y + mm(2), total, HeaderTitle(s), 0, 0)>>),
           !.yPos = y + mm(12),
           !.pc = AfterHeader(s),
           !.phase = IF AfterHeader(s) \in {"table", "disclaimer"} THEN "check" ELSE "write",
           !.k = IF AfterHeader(s) = "table" THEN 0 ELSE 1,
           !.i = IF s.pc = "hdrDefects" THEN 0 ELSE @]

\* dateObj.toLocaleDateString('en-US', {year, month: 'long', day}) of the
\* dates the forms hold (script.js:421-426).
FormatDate(d) == IF d = "2024-03-15" THEN "March 15, 2024" ELSE "Invalid Date"

\* Client & property details (script.js:391-448): five optional label/value
\* pairs, written at yPos one after the other with no checkNewPage, then
\* yPos += 5.
ClientDetails(s) ==
    LET addressLines == splitTextToSize(form.clientAddress, contentWidth - mm(40))
        credLines == splitTextToSize(form.inspectorCredentials, contentWidth - mm(40))
        y0 == s.yPos
        y1 == IF form.clientName # "" THEN y0 + mm(6) ELSE y0
        y2 == IF form.clientAddress # NoText
              THEN y1 + Len(addressLines) * mm(5) + mm(2) ELSE y1
        y3 == IF form.inspectionDate # "" THEN y2 + mm(6) ELSE y2
        y4 == IF form.inspectorName # "" THEN y3 + mm(6) ELSE y3
        y5 == IF form.inspectorCredentials # NoText
              THEN y4 + Len(credLines) * mm(5) + mm(2) ELSE y4
    IN  [s EXCEPT
           !.doc = DrawLast(@,
               (IF form.clientName # ""
                THEN <<Op("field", y0, 0, "Client Name:", 0, 0),
                       Op("value", y0, 0, form.clientName, 0, 0)>> ELSE <<>>)
               \o (IF form.clientAddress # NoText
                   THEN <<Op("field", y1, 0, "Property Address:", 0, 0),
                          Op("value", y1, Len(addressLines), "", 1, form.clientAddress.n)>>
                   ELSE <<>>)
               \o (IF form.inspectionDate # ""
                   THEN <<Op("field", y2, 0, "Inspection Date:", 0, 0),
                          Op("value", y2, 0, FormatDate(form.inspectionDate), 0, 0)>>
                   ELSE <<>>)
               \o (IF form.inspectorName # ""
                   THEN <<Op("field", y3, 0, "Inspector:", 0, 0),
                          Op("value", y3, 0, form.inspectorName, 0, 0)>> ELSE <<>>)
               \o (IF form.inspectorCredentials # NoText
                   THEN <<Op("field", y4, 0, "Credentials:", 0, 0),
                          Op("value", y4, Len(credLines), "", 1, form.inspectorCredentials.n)>>
                   ELSE <<>>)),
           !.yPos = y5 + mm(5),
           !.pc = "hdrInspection",
           !.phase = "check"]

\* tableData (script.js:462-467).
tableData ==
    <<<<"Attendance", IF form.attendance # "" THEN form.attendance ELSE "N/A">>,
      <<"Occupancy", IF form.occupancy # "" THEN form.occupancy ELSE "N/A">>,
      <<"Type of Building", IF form.buildingType # "" THEN form.buildingType ELSE "N/A">>,
      <<"Weather Condition", IF form.weatherCondition # "" THEN form.weatherCondition ELSE "N/A">>>>

\* One row of the table after its checkNewPage(8) (script.js:475-485);
\* k is the forEach index.  After the last row, yPos += 5 (script.js:488).
TableRow(s) ==
    LET row == tableData[s.k + 1]
        last == s.k + 1 = Len(tableData)
    IN  [s EXCEPT
           !.doc = DrawLast(@,
               (IF s.k % 2 = 0
                THEN <<Op("rowfill", s.yPos - mm(4), s.k, "", 0, 0)>> ELSE <<>>)
               \o <<Op("rowkey", s.yPos, s.k, row[1], 0, 0),
                    Op("rowvalue", s.yPos, s.k, row[2], 0, 0)>>),
           !.yPos = IF last THEN @ + mm(8) + mm(5) ELSE @ + mm(8),
           !.pc = IF last THEN "hdrDisclaimer" ELSE @,
           !.k = @ + 1,
           !.phase = "check"]

\* One line of the disclaimer after its checkNewPage(5) (script.js:505-506);
\* k is the number of the line, the advance is 4.5 mm.
DisclaimerLine(s) ==
    LET disclaimerLines == splitTextToSize(form.disclaimer, contentWidth)
        line == disclaimerLines[s.k]
        last == s.k = Len(disclaimerLines)
    IN  [s EXCEPT
           !.doc = DrawLast(@, <<Op("disclaimer", s.yPos, 0, "", line[1], line[2])>>),
           !.yPos = @ + 9,
           !.pc = IF last THEN "defects" ELSE @,
           !.phase = IF last THEN "write" ELSE "check",
           !.k = @ + 1]

\* A defects section that starts where the disclaimer ended: no doc.addPage().
DefectsSectionSamePage(s) ==
    IF Len(defects) > 0
    THEN [s EXCEPT !.yPos = @ + mm(5), !.pc = "hdrDefects", !.phase = "check"]
    ELSE [s EXCEPT !.yPos = @ + mm(5), !.pc = "finalize"]

\* yPos += 5 after the disclaimer, then the start of the defects section
\* (script.js:512-521): a new page whenever the list is not empty.
DefectsSection(s) ==
    IF Len(defects) > 0
    THEN [s EXCEPT !.doc = addPage(@), !.yPos = margin, !.pc = "hdrDefects", !.phase = "check",
                   !.highY = IF @ < s.yPos + mm(5) THEN s.yPos + mm(5) ELSE @]
    ELSE [s EXCEPT !.yPos = @ + mm(5), !.pc = "finalize"]

\* The test of the for loop and `const defect = defects[i]`
\* (script.js:526-527); `defects` is the global list, read as it is now.
DefectLoop(s) ==
    IF s.i < Len(defects)
    THEN [s EXCEPT !.defect = defects[s.i + 1], !.pc = "heading", !.phase = "check"]
    ELSE [s EXCEPT !.pc = "finalize"]

\* A loop that starts the probe of a defect and goes on to the next defect
\* without awaiting it.
DefectHeadingNoAwait(s) ==
    [s EXCEPT
       !.doc = DrawLast(@, <<Op("heading", s.yPos, s.i + 1, s.defect.defectType,
                                s.defect.id, 0)>>),
       !.yPos = @ + mm(8),
       !.img = [src |-> s.defect.imageData, width |-> 0, height |-> 0],
       !.i = @ + 1,
       !.pc = "loop"]

\* The defect heading after checkNewPage(100), then the probe is started and
\* the handler awaits it (script.js:533-554).
DefectHeading(s) ==
    [s EXCEPT
       !.doc = DrawLast(@, <<Op("heading", s.yPos, s.i + 1, s.defect.defectType,
                                s.defect.id, 0)>>),
       !.yPos = @ + mm(8),
       !.img = [src |-> s.defect.imageData, width |-> 0, height |-> 0],
       !.pc = "await"]

\* Scale image to fit (script.js:556-562): the ratio and the two products,
\* in binary64.  An image that did not load has width 0 and height 0: both
\* quotients are Infinity and both products 0 * Infinity.  (An image that
\* loaded has both dimensions positive.)
Ratio(w, h) == FMin(FDiv(maxImgWidth \div mm(1), w), FDiv(maxImgHeight \div mm(1), h))

Scaled(w, h) ==
    IF w = 0 \/ h = 0
    THEN [width |-> NotANumber, height |-> NotANumber]
    ELSE LET ratio == Ratio(w, h)
         IN  [width |-> FMul(w, ratio), height |-> FMul(h, ratio)]

\* The widths and heights of the images of the model, in pixels: the
\* least ones, and a few larger ones.
PixelSizes == (1..MaxPixels) \cup {34, 39, 67, 77}

\* Scaled, worked out once for every image size of the model.
ScaledSize == [w \in PixelSizes \cup {0}, h \in PixelSizes \cup {0} |-> Scaled(w, h)]

\* A page-fit check without the 20 mm kept for what follows the image.
ImageNeedsNewPageNoRoom(y, height) == Gt(Plus(y, height), pageHeight - margin)

\* "Check if image fits on current page" (script.js:565).
ImageNeedsNewPage(y, height) ==
    Gt(Plus(Plus(y, height), mm(20)), pageHeight - margin)

\* The rest of the try block and its catch (script.js:556-589): scaling,
\* the page-fit check with the repeated heading, doc.addImage; when
\* addImage throws, the placeholder text and yPos += 8.  The cursor takes
\* the scaled height to the nearest half millimetre.
PlaceImage(s) ==
    LET scaled == ScaledSize[s.img.width, s.img.height]
        w == scaled.width
        h == scaled.height
        gw == ToGrid(w)
        gh == ToGrid(h)
        break == ImageNeedsNewPage(s.yPos, gh)
        y1 == IF break THEN margin + mm(8) ELSE s.yPos
        d1 == IF break
              THEN DrawLast(addPage(s.doc),
                            <<Op("continued", margin, s.i + 1, s.defect.defectType,
                                 s.defect.id, 0)>>)
              ELSE s.doc
    IN  IF ImageInfo(s.defect.imageData).pdf
        THEN [s EXCEPT
                !.imgWidth = w, !.imgHeight = h,
                !.doc = DrawLast(d1, <<Op("image", y1, s.i + 1, s.defect.imageData,
                                          gw, gh)>>),
                !.yPos = Plus(y1, Plus(gh, mm(5))),
                !.pc = "desc", !.phase = "check", !.k = 1]
        ELSE [s EXCEPT
                !.imgWidth = w, !.imgHeight = h,
                !.doc = DrawLast(d1, <<Op("placeholder", y1, s.i + 1,
                                          "[Image could not be loaded]", 0, 0)>>),
                !.yPos = y1 + mm(8),
                !.pc = "desc", !.phase = "check", !.k = 1]

\* A description that loses the line at which the page breaks.
DescLineLostAtBreak(s) ==
    LET descLines == splitTextToSize(s.defect.description, contentWidth)
        line == descLines[s.k]
        last == s.k = Len(descLines)
    IN  IF s.yPos = NaN
        THEN [s EXCEPT !.pc = "failed"]
        ELSE [s EXCEPT
                !.doc = IF s.ret THEN @
                        ELSE DrawLast(@, <<Op("description", s.yPos, s.i + 1, "",
                                              line[1], line[2])>>),
                !.yPos = @ + mm(5),
                !.pc = IF last THEN "descEnd" ELSE @,
                !.phase = IF last THEN "write" ELSE "check",
                !.k = @ + 1]

\* One line of the description after its checkNewPage(6) (script.js:598-599).
\* doc.text refuses a y that is not a number: the error leaves the loop and
\* is caught at script.js:661.
DescLine(s) ==
    LET descLines == splitTextToSize(s.defect.description, contentWidth)
        line == descLines[s.k]
        last == s.k = Len(descLines)
    IN  IF s.yPos = NaN
        THEN [s EXCEPT !.pc = "failed"]
        ELSE [s EXCEPT
                !.doc = DrawLast(@, <<Op("description", s.yPos, s.i + 1, "",
                                         line[1], line[2])>>),
                !.yPos = @ + mm(5),
                !.pc = IF last THEN "descEnd" ELSE @,
                !.phase = IF last THEN "write" ELSE "check",
                !.k = @ + 1]

\* A separator after every defect, the last one too.
AfterDescriptionAlwaysSeparator(s) ==
    IF s.i < Len(defects)
    THEN [s EXCEPT !.yPos = @ + mm(10), !.pc = "sep", !.phase = "check"]
    ELSE [s EXCEPT !.yPos = @ + mm(10), !.pc = "loop", !.i = @ + 1]

\* yPos += 10 and the test for the separator (script.js:602-605), then i++
\* when there is none; defects.length is read from the global list.
AfterDescription(s) ==
    IF s.i < Len(defects) - 1
    THEN [s EXCEPT !.yPos = @ + mm(10), !.pc = "sep", !.phase = "check"]
    ELSE [s EXCEPT !.yPos = @ + mm(10), !.pc = "loop", !.i = @ + 1]

\* The separator after its checkNewPage(15) (script.js:607-610), then i++.
Separator(s) ==
    [s EXCEPT
       !.doc = DrawLast(@, <<Op("separator", s.yPos, s.i + 1, "", 0, 0)>>),
       !.yPos = @ + mm(10),
       !.i = @ + 1,
       !.pc = "loop"]

\* const totalPages = doc.internal.getNumberOfPages() (script.js:619).
FooterStart(s) == [s EXCEPT !.totalPages = Len(s.doc), !.k = 1, !.pc = "footer"]

\* The clock while the footers are stamped: t[c] is the page before whose
\* stamp the c-th second passes (0: it does not), so Time(t, j) is what
\* new Date() gives in round j.
Ticks == [1..MaxClock -> 0..LastTick]
Time(t, j) == Cardinality({c \in 1..MaxClock : t[c] # 0 /\ t[c] <= j})

\* A footer loop without doc.setPage(i): every stamp lands on the last page.
FooterStampOnLastPage(s, t) ==
    [s EXCEPT
       !.doc = DrawLast(@,
           <<Op("pageno", pageHeight - mm(10), s.k, "Page i of N", s.totalPages, 0),
             Op("timestamp", pageHeight - mm(6), s.k, "Report generated:", Time(t, s.k), 0)>>),
       !.k = @ + 1,
       !.pc = IF s.k = s.totalPages THEN "save" ELSE @]

\* A footer that carries the company name, read from the form when the
\* page is stamped.
FooterStampWithCompany(s, t) ==
    [s EXCEPT
       !.doc = Draw(@, s.k,
           <<Op("pageno", pageHeight - mm(10), s.k, "Page i of N", s.totalPages, 0),
             Op("timestamp", pageHeight - mm(6), s.k, "Report generated:", Time(t, s.k), 0),
             Op("company", pageHeight - mm(2), s.k,
                IF form.companyName # "" THEN form.companyName ELSE "Inspection Company",
                0, 0)>>),
       !.k = @ + 1,
       !.pc = IF s.k = s.totalPages THEN "save" ELSE @]

\* One round of the footer loop (script.js:620-642): on page k, the page
\* number and the timestamp read from the clock in that round.
FooterStamp(s, t) ==
    [s EXCEPT
       !.doc = Draw(@, s.k,
           <<Op("pageno", pageHeight - mm(10), s.k, "Page i of N", s.totalPages, 0),
             Op("timestamp", pageHeight - mm(6), s.k, "Report generated:", Time(t, s.k), 0)>>),
       !.k = @ + 1,
       !.pc = IF s.k = s.totalPages THEN "save" ELSE @]

\* A handler that calls doc.save twice.
SaveTwice(s, t) ==
    [s EXCEPT
       !.saves = @ \o << [filename |-> <<"Inspection_Report_", Time(t, s.totalPages), ".pdf">>,
                         pages |-> Len(s.doc)],
                        [filename |-> <<"Inspection_Report_", Time(t, s.totalPages), ".pdf">>,
                         pages |-> Len(s.doc)] >>,
       !.pc = "done"]

\* File name from the date and doc.save (script.js:649-654).
Save(s, t) ==
    [s EXCEPT
       !.saves = Append(@, [filename |-> <<"Inspection_Report_", Time(t, s.totalPages), ".pdf">>,
                            pages |-> Len(s.doc)]),
       !.pc = "done"]

\* addText(text, fontSize, isBold) (script.js:318-332), one line after its
\* checkNewPage(lineHeight + 2); lineHeight = fontSize * 0.5 mm is fontSize
\* half millimetres.  After the last line, yPos += 2.
addText(s) ==
    LET lines == splitTextToSize(s.args.text, contentWidth)
        lineHeight == s.args.fontSize
        line == lines[s.k]
        last == s.k = Len(lines)
    IN  [s EXCEPT
           !.doc = DrawLast(@, <<Op("text", s.yPos, 0, "", line[1], line[2])>>),
           !.yPos = IF last THEN @ + lineHeight + mm(2) ELSE @ + lineHeight,
           !.pc = IF last THEN "addTextEnd" ELSE @,
           !.phase = IF last THEN "write" ELSE "check",
           !.k = @ + 1]

\* ------------------------------------------------------------ the handler
\* The handler rests at await, after its last statement, in its catch; a
\* call of addText rests when it returns.
Resting(s) == s.pc \in {"idle", "await", "done", "failed", "addTextEnd"}

\* The next statement of the handler.
Statement(s, t) ==
    IF s.phase = "check" THEN checkNewPage(s)
    ELSE CASE s.pc = "header" -> DocumentHeader(s)
           [] s.pc \in {"hdrClient", "hdrInspection", "hdrDisclaimer", "hdrDefects"} ->
                  addSectionHeader(s)
           [] s.pc = "client" -> ClientDetails(s)
           [] s.pc = "table" -> TableRow(s)
           [] s.pc = "disclaimer" -> DisclaimerLine(s)
           [] s.pc = "defects" -> DefectsSection(s)
           [] s.pc = "loop" -> DefectLoop(s)
           [] s.pc = "heading" -> DefectHeading(s)
           [] s.pc = "image" -> PlaceImage(s)
           [] s.pc = "desc" -> DescLine(s)
           [] s.pc = "descEnd" -> AfterDescription(s)
           [] s.pc = "sep" -> Separator(s)
           [] s.pc = "finalize" -> FooterStart(s)
           [] s.pc = "footer" -> FooterStamp(s, t)
           [] s.pc = "save" -> Save(s, t)
           [] s.pc = "addText" -> addText(s)

\* The statement, and the extremes of the cursor kept up to date (the
\* statement is worked out once, and its result tracked).
Tracked(n) ==
    [n EXCEPT !.lowY = IF n.yPos < @ THEN n.yPos ELSE @,
              !.highY = IF n.yPos > @ THEN n.yPos ELSE @]

Step(s, t) == CHOOSE x \in {Tracked(n) : n \in {Statement(s, t)}} : TRUE

\* The statements up to the next await, or to the footer loop when the
\* composition ends first (t is not read before the footer loop); then
\* the footer loop and the save under the clock t.
NoTicks == [c \in 1..MaxClock |-> 0]

RECURSIVE Compose(_)
Compose(s) == IF Resting(s) \/ s.pc = "footer" THEN s ELSE Compose(Step(s, NoTicks))

RECURSIVE Finish(_, _)
Finish(s, t) == IF Resting(s) THEN s ELSE Finish(Step(s, t), t)

\* What the handler leaves in generationStatus when it rests: the success
\* message and the timer (script.js:656-659), the error message
\* (script.js:663), or what was there.
StatusAfter(r, s, before) ==
    IF s.pc = "done" THEN [type |-> "success", run |-> r]
    ELSE IF s.pc = "failed" THEN [type |-> "error", run |-> r]
    ELSE before

TimersAfter(r, s) == IF s.pc = "done" THEN timers \cup {r} ELSE timers

\* generatePdfBtn click (script.js:262-283 and on to the first await): the
\* loading status, a new document with its first page, yPos = margin.
GenerateClick(r) ==
    /\ clicks < MaxClicks
    /\ started < MaxRuns
    /\ r = started + 1
    /\ clicks' = clicks + 1
    /\ started' = r
    /\ LET s == Compose([IdleRun EXCEPT !.pc = "header", !.doc = <<<<>>>>,
                                         !.input = defects, !.meta = form])
       IN  \E t \in Ticks : run' = [run EXCEPT ![r] = Finish(s, t)]
    /\ status' = StatusAfter(r, run'[r], [type |-> "loading", run |-> r])
    /\ timers' = TimersAfter(r, run'[r])
    /\ UNCHANGED <<defects, defectCounter, adds, readers, form>>

\* img.onload = resolve (script.js:552): the image has its dimensions, the
\* handler goes on to the next await or to its end.
ImgOnload(r) ==
    /\ run[r].pc = "await"
    /\ ImageInfo(run[r].img.src).probe = "load"
    /\ LET s == Compose([run[r] EXCEPT
                            !.pc = "image",
                            !.img = [src |-> run[r].img.src,
                                     width |-> ImageInfo(run[r].img.src).width,
                                     height |-> ImageInfo(run[r].img.src).height]])
       IN  \E t \in Ticks : run' = [run EXCEPT ![r] = Finish(s, t)]
    /\ status' = StatusAfter(r, run'[r], status)
    /\ timers' = TimersAfter(r, run'[r])
    /\ UNCHANGED <<defects, defectCounter, clicks, adds, readers, form, started>>

\* img.onerror = resolve (script.js:553): the promise resolves all the same,
\* img.width and img.height stay 0.
ImgOnerror(r) ==
    /\ run[r].pc = "await"
    /\ ImageInfo(run[r].img.src).probe = "error"
    /\ LET s == Compose([run[r] EXCEPT !.pc = "image"])
       IN  \E t \in Ticks : run' = [run EXCEPT ![r] = Finish(s, t)]
    /\ status' = StatusAfter(r, run'[r], status)
    /\ timers' = TimersAfter(r, run'[r])
    /\ UNCHANGED <<defects, defectCounter, clicks, adds, readers, form, started>>

\* ------------------------------------------------------------ the program
Next ==
    \/ \E f \in DefectForms : AddDefectClick(f)
    \/ \E rd \in readers : ReaderOnload(rd)
    \/ \E id \in 1..MaxAdds : removeDefect(id)
    \/ \E r \in RunIds : hideStatus(r)
    \/ \E r \in RunIds : GenerateClick(r)
    \/ \E r \in RunIds : ImgOnload(r)
    \/ \E r \in RunIds : ImgOnerror(r)

Spec == Init /\ [][Next]_vars

\* ------------------------------------------- the layout, statement by statement
\* The text writers from any cursor position: the handler is at the first
\* line of a wrapped block (a call of addText, the disclaimer, the
\* description of the first of two defects) with the cursor anywhere near
\* the bottom margin, and takes one statement at a time up to the next await.
StartY == {margin, mm(100)} \cup ((pageHeight - margin - mm(14))..(pageHeight - margin + mm(12)))

AddTextArgs ==
    { [text |-> tx, fontSize |-> fs] :
        tx \in {[n |-> 3, w |-> mm(100)], [n |-> 5, w |-> mm(40)]}, fs \in {9, 10, 12} }

TwoDefects ==
    <<[id |-> 1, defectType |-> "Crack", imageData |-> "square",
       description |-> [n |-> 5, w |-> mm(100)]],
      [id |-> 2, defectType |-> "Damp", imageData |-> "wide",
       description |-> [n |-> 9, w |-> mm(100)]]>>

LayoutInit ==
    /\ defects = TwoDefects
    /\ defectCounter = 2
    /\ clicks = 3
    /\ adds = 2
    /\ readers = {}
    /\ form \in {f \in Forms : f.disclaimer # NoText}
    /\ status = [type |-> "loading", run |-> 1]
    /\ timers = {}
    /\ started = 1
    /\ \E y \in StartY, at \in {"addText", "disclaimer", "desc"}, a \in AddTextArgs :
          /\ at # "addText" => a = CHOOSE x \in AddTextArgs : TRUE
          /\ run = [r \in RunIds |->
                      IF r = 1
                      THEN [IdleRun EXCEPT
                              !.pc = at, !.phase = "check", !.k = 1, !.yPos = y,
                              !.lowY = y, !.highY = y, !.doc = <<<<>>>>,
                              !.defect = TwoDefects[1], !.input = TwoDefects,
                              !.args = IF at = "addText" THEN a ELSE @]
                      ELSE IdleRun]

LayoutStep ==
    /\ ~Resting(run[1])
    /\ run' = [run EXCEPT ![1] = Step(@, NoTicks)]
    /\ UNCHANGED <<defects, defectCounter, clicks, adds, readers, form, status, timers, started>>

LayoutSpec == LayoutInit /\ [][LayoutStep]_vars

\* The document header for any contact details: the handler starts on a
\* form whose phone and e-mail are each filled or empty, with no defect in
\* the list, and takes one statement at a time to its end.
ContactForms ==
    { [f EXCEPT !.companyPhone = p, !.companyEmail = e] :
        f \in Forms, p \in {"", "555"}, e \in {"", "a@b"} }

FormInit ==
    /\ defects = <<>>
    /\ defectCounter = 0
    /\ clicks = 1
    /\ adds = 0
    /\ readers = {}
    /\ form \in ContactForms
    /\ status = [type |-> "loading", run |-> 1]
    /\ timers = {}
    /\ started = 1
    /\ run = [r \in RunIds |->
                IF r = 1 THEN [IdleRun EXCEPT !.pc = "header", !.doc = <<<<>>>>]
                ELSE IdleRun]

FormSpec == FormInit /\ [][LayoutStep]_vars

\* The image scaling for any image size: the handler is resumed by the
\* load event of an image of any width and height, and places it.
ScaleInit ==
    /\ defects = TwoDefects
    /\ defectCounter = 2
    /\ clicks = 3
    /\ adds = 2
    /\ readers = {}
    /\ form \in {f \in Forms : f.disclaimer = NoText}
    /\ status = [type |-> "loading", run |-> 1]
    /\ timers = {}
    /\ started = 1
    /\ \E w \in PixelSizes, h \in PixelSizes :
          run = [r \in RunIds |->
                   IF r = 1
                   THEN [IdleRun EXCEPT
                           !.pc = "image", !.yPos = mm(45), !.highY = mm(45),
                           !.doc = <<<<>>>>, !.defect = TwoDefects[1], !.input = TwoDefects,
                           !.img = [src |-> "square", width |-> w, height |-> h]]
                   ELSE IdleRun]

ScaleStep ==
    /\ run[1].pc = "image"
    /\ run' = [run EXCEPT ![1] = Step(@, NoTicks)]
    /\ UNCHANGED <<defects, defectCounter, clicks, adds, readers, form, status, timers, started>>

ScaleSpec == ScaleInit /\ [][ScaleStep]_vars

\* The placement of the image from any cursor position: the handler is at
\* the heading of the first or of the second of two defects, with the
\* cursor anywhere in the lower half of the page; it takes one statement at
\* a time, and at its await the image loads with one of a few sizes.
HeadingY == {margin, mm(100)} \cup (mm(160)..mm(180))
LoadedPixels == {3, 10, 34}

PlaceInit ==
    /\ defects = TwoDefects
    /\ defectCounter = 2
    /\ clicks = 3
    /\ adds = 2
    /\ readers = {}
    /\ form \in {f \in Forms : f.disclaimer = NoText}
    /\ status = [type |-> "loading", run |-> 1]
    /\ timers = {}
    /\ started = 1
    /\ \E y \in HeadingY, first \in {0, 1} :
          run = [r \in RunIds |->
                   IF r = 1
                   THEN [IdleRun EXCEPT
                           !.pc = "heading", !.phase = "check", !.yPos = y,
                           !.lowY = y, !.highY = y, !.doc = <<<<>>>>,
                           !.i = first, !.defect = TwoDefects[first + 1],
                           !.input = TwoDefects]
                   ELSE IdleRun]

PlaceLoad ==
    /\ run[1].pc = "await"
    /\ \E w \in LoadedPixels, h \in LoadedPixels :
          run' = [run EXCEPT ![1] = [@ EXCEPT !.pc = "image",
                                              !.img = [src |-> @.src, width |-> w,
                                                       height |-> h]]]
    /\ UNCHANGED <<defects, defectCounter, clicks, adds, readers, form, status, timers, started>>

PlaceSpec == PlaceInit /\ [][LayoutStep \/ PlaceLoad]_vars

\* The form edited under a run: two defects are in the list and no run has
\* started; the user clicks generatePdfBtn, twice at most, and types in
\* the form, before a run, while a run awaits an image, and after it.
EditForm(f) ==
    /\ f # form
    /\ form' = f
    /\ UNCHANGED <<defects, defectCounter, clicks, adds, readers, status, timers, started, run>>

EditInit ==
    /\ defects = TwoDefects
    /\ defectCounter = 2
    /\ clicks = MaxClicks - 2
    /\ adds = 2
    /\ readers = {}
    /\ form \in Forms
    /\ status = [type |-> "hidden", run |-> 0]
    /\ timers = {}
    /\ started = 0
    /\ run = [r \in RunIds |-> IdleRun]

EditNext ==
    \/ \E f \in Forms : EditForm(f)
    \/ \E r \in RunIds : GenerateClick(r)
    \/ \E r \in RunIds : ImgOnload(r)
    \/ \E r \in RunIds : hideStatus(r)

EditSpec == EditInit /\ [][EditNext]_vars

\* ----------------------------------------------------------- observations
\* The operations of a document in page order, and in write order on a page.
RECURSIVE Flatten(_)
Flatten(d) == IF d = <<>> THEN <<>> ELSE Head(d) \o Flatten(Tail(d))

OpsOf(d) == Flatten(d)
KindOps(d, kinds) == SelectSeq(Flatten(d), LAMBDA o : o.kind \in kinds)
PagesWith(d, kinds) == {p \in 1..Len(d) : \E j \in 1..Len(d[p]) : d[p][j].kind \in kinds}
Limit == pageHeight - margin

\* ------------------------------------------------------------------ claims
\* C1: checkNewPage(requiredSpace): if yPos + requiredSpace > pageHeight -
\* margin it appends exactly one page, sets yPos = margin and returns true;
\* otherwise it returns false and leaves the page count and yPos unchanged.
C1_CheckNewPage ==
    [][run[1].phase = "check" =>
         IF run[1].yPos + RequiredSpace(run[1]) > pageHeight - margin
         THEN /\ Len(run'[1].doc) = Len(run[1].doc) + 1
              /\ run'[1].doc = Append(run[1].doc, <<>>)
              /\ run'[1].yPos = margin
              /\ run'[1].ret = TRUE
         ELSE /\ run'[1].doc = run[1].doc
              /\ run'[1].yPos = run[1].yPos
              /\ run'[1].ret = FALSE]_vars

\* A checkNewPage that has just broken the page at exactly one unit over.
C1_Witness ==
    /\ run[1].phase = "write"
    /\ run[1].pc \in {"desc", "disclaimer", "addText", "sep", "heading", "hdrDefects"}
    /\ run[1].ret = TRUE
    /\ run[1].yPos = margin
    /\ Len(run[1].doc) >= 2

\* C2: after each write, trailing advances included, yPos is within
\* [margin, pageHeight - margin], and the page count of a run never decreases.
C2_PaginationMonotone ==
    [][\A r \in RunIds :
         /\ run'[r].pc # "idle" =>
               /\ run'[r].yPos # NaN
               /\ margin <= run'[r].lowY
               /\ run'[r].highY <= pageHeight - margin
         /\ Len(run'[r].doc) >= Len(run[r].doc)]_vars

\* C3: every writer checks for space before it draws, so nothing of the
\* content (the footers are not content) is drawn below pageHeight - margin.
ContentOps(d) == SelectSeq(Flatten(d), LAMBDA o : o.kind \notin {"pageno", "timestamp"})

C3_WritersCheckSpace ==
    \A r \in RunIds :
        \A j \in 1..Len(ContentOps(run[r].doc)) :
            /\ ContentOps(run[r].doc)[j].y # NaN
            /\ ContentOps(run[r].doc)[j].y <= pageHeight - margin

\* C4: a wrapped block (addText, the disclaimer, a description) that runs
\* into a page break loses nothing: the lines written so far, in page
\* order and then in write order, are the first lines of splitTextToSize
\* of the text, and all of them once the block is over.  (The description
\* is that of the first defect: the handler is followed up to the await
\* of the second.)
LinesOf(d, kind) ==
    LET ops == KindOps(d, {kind}) IN [j \in 1..Len(ops) |-> <<ops[j].a, ops[j].b>>]

BlockText(s, kind) ==
    CASE kind = "text" -> s.args.text
      [] kind = "disclaimer" -> form.disclaimer
      [] kind = "description" -> s.input[1].description

BlockPc(kind) ==
    CASE kind = "text" -> "addText"
      [] kind = "disclaimer" -> "disclaimer"
      [] kind = "description" -> "desc"

C4_NoContentLoss ==
    \A kind \in {"text", "disclaimer", "description"} :
        LET s == run[1]
            written == LinesOf(s.doc, kind)
            lines == splitTextToSize(BlockText(s, kind), contentWidth)
        IN  IF s.pc = BlockPc(kind)
            THEN written = SubSeq(lines, 1, s.k - 1)
            ELSE written # <<>> => written = lines

\* A block over, with a page break between two of its lines.
C4_Witness ==
    \E kind \in {"text", "disclaimer", "description"} :
        /\ run[1].pc # BlockPc(kind)
        /\ Len(LinesOf(run[1].doc, kind)) >= 2
        /\ Cardinality(PagesWith(run[1].doc, {kind})) = 2

\* C5: an image of w x h pixels is placed at (w * r, h * r) with
\* r = min(maxImgWidth / w, maxImgHeight / h): placedWidth <= maxImgWidth,
\* placedHeight <= maxImgHeight, placedWidth * h = placedHeight * w, and one
\* of the two bounds is met with equality.
\* The sizes are binary64 numbers; what follows compares them exactly.
\* a - b (a >= b) on digit strings of the same length n: digit j borrows
\* when, below it, b has a 1 over a 0 of a before a has a 1 over a 0 of b.
Borrow(a, b, n, j) ==
    \E k \in (j + 1)..n :
        a[k] < b[k] /\ \A m \in (j + 1)..(k - 1) : a[m] = b[m]

SubBits(a, b, n) ==
    [j \in 1..n |-> (a[j] - b[j] - (IF Borrow(a, b, n, j) THEN 1 ELSE 0) + 2) % 2]

\* |x - y| of two exact positive numbers (b = <<>> is zero).
Distance(x, y) ==
    LET e == IF x.e < y.e THEN x.e ELSE y.e
        a == x.b \o Zeros(x.e - e)
        b == y.b \o Zeros(y.e - e)
        n == IF Len(a) > Len(b) THEN Len(a) ELSE Len(b)
        hi == IF Cmp(x, y) >= 0 THEN Zeros(n - Len(a)) \o a ELSE Zeros(n - Len(b)) \o b
        lo == IF Cmp(x, y) >= 0 THEN Zeros(n - Len(b)) \o b ELSE Zeros(n - Len(a)) \o a
    IN  [nan |-> FALSE, b |-> Strip(SubBits(hi, lo, n)), e |-> e]

\* x * n, exactly, and x * 2^k.
Times(x, n) == [nan |-> FALSE, b |-> MulBits(x.b, n), e |-> x.e]
Shift(x, k) == [x EXCEPT !.e = @ + k]

\* The binary64 next above and next below the binary64 of the integer n
\* (n not a power of two).
Above(n) == [Round(Num(n)) EXCEPT !.b = IncBits(@)]
Below(n) ==
    [Round(Num(n)) EXCEPT !.b = Strip(SubBits(@, Zeros(Precision - 1) \o <<1>>, Precision))]

MaxW == maxImgWidth \div mm(1)
MaxH == maxImgHeight \div mm(1)

\* The image of run 1 has been placed.
Placed == run[1].pc = "desc" /\ ~run[1].imgWidth.nan /\ ~run[1].imgHeight.nan

C5_AspectRatioExact ==
    Placed =>
        LET w == run[1].img.width
            h == run[1].img.height
            pw == run[1].imgWidth
            ph == run[1].imgHeight
        IN  /\ Cmp(pw, Num(MaxW)) <= 0
            /\ Cmp(ph, Num(MaxH)) <= 0
            /\ Cmp(Times(pw, h), Times(ph, w)) = 0
            /\ Cmp(pw, Num(MaxW)) = 0 \/ Cmp(ph, Num(MaxH)) = 0

\* C5, as the code has it in binary64 arithmetic: the quotient and the two
\* products are each rounded to the nearest binary64, so placedWidth and
\* placedHeight are at most one unit in the last place above maxImgWidth
\* and maxImgHeight, one of them is within one unit in the last place of
\* its bound, and |placedWidth * h - placedHeight * w| is at most 2^-51
\* of placedWidth * h.
C5_AspectRatio ==
    Placed =>
        LET w == run[1].img.width
            h == run[1].img.height
            pw == run[1].imgWidth
            ph == run[1].imgHeight
            gap == Distance(Times(pw, h), Times(ph, w))
        IN  /\ Cmp(pw, Above(MaxW)) <= 0
            /\ Cmp(ph, Above(MaxH)) <= 0
            /\ Cmp(pw, Below(MaxW)) >= 0 \/ Cmp(ph, Below(MaxH)) >= 0
            /\ gap.b # <<>> =>
                  Cmp(Shift(gap, Precision - 2), Times(pw, h)) <= 0

\* An image placed wider than maxImgWidth, by one unit in the last place.
C5_Witness ==
    /\ Placed
    /\ Cmp(run[1].imgWidth, Num(MaxW)) > 0
    /\ Cmp(run[1].imgWidth, Above(MaxW)) = 0

\* An image placed with one bound met exactly and the aspect ratio exact.
C5_WitnessExact ==
    /\ Placed
    /\ Cmp(run[1].imgWidth, Num(MaxW)) = 0
    /\ Cmp(Times(run[1].imgWidth, run[1].img.height),
           Times(run[1].imgHeight, run[1].img.width)) = 0
    /\ run[1].img.width # run[1].img.height

\* C6: the defect sections of the PDF are numbered 1..N with no gap and no
\* repeat, and section k is the k-th defect of the list the run was
\* started with.
C6_DefectOrdering ==
    \A r \in RunIds :
        run[r].pc = "done" =>
            LET hs == KindOps(run[r].doc, {"heading"})
            IN  /\ Len(hs) = Len(run[r].input)
                /\ \A j \in 1..Len(hs) :
                      /\ hs[j].n = j
                      /\ j <= Len(run[r].input)
                      /\ hs[j].a = run[r].input[j].id
                      /\ hs[j].s = run[r].input[j].defectType

\* C7: when the list has a defect, "Identified Defects" and the first
\* defect start on a page after every page of the earlier sections, however
\* much room the disclaimer left; when the list is empty there is no
\* "Identified Defects" header, no defect and no page for them.
FrontKinds ==
    {"company", "contact", "title", "rule", "field", "value", "rowfill", "rowkey",
     "rowvalue", "disclaimer"}
DefectKinds == {"heading", "continued", "image", "placeholder", "description", "separator"}
DefectsTitle == "Identified Defects (N Total)"
DefectsHeaderPages(d) ==
    {p \in 1..Len(d) :
        \E j \in 1..Len(d[p]) : d[p][j].kind = "section" /\ d[p][j].s = DefectsTitle}
FrontPages(d) ==
    PagesWith(d, FrontKinds) \cup
    {p \in 1..Len(d) :
        \E j \in 1..Len(d[p]) : d[p][j].kind = "section" /\ d[p][j].s # DefectsTitle}

C7_DefectsOnFreshPage ==
    \A r \in RunIds :
        run[r].pc # "idle" =>
            LET d == run[r].doc
            IN  IF Len(run[r].input) > 0
                THEN /\ DefectsHeaderPages(d) # {}
                     /\ \E p \in PagesWith(d, {"heading"}) :
                           \E j \in 1..Len(d[p]) : d[p][j].kind = "heading" /\ d[p][j].n = 1
                     /\ \A p \in DefectsHeaderPages(d) \cup PagesWith(d, DefectKinds) :
                           \A q \in FrontPages(d) : p > q
                ELSE /\ DefectsHeaderPages(d) = {}
                     /\ PagesWith(d, DefectKinds) = {}
                     /\ FrontPages(d) = 1..Len(d)

\* A finished report with defects, whose disclaimer ended high on its page.
C7_Witness ==
    \E r \in RunIds :
        /\ run[r].pc = "done"
        /\ Len(run[r].input) > 0
        /\ \E j \in 1..Len(ContentOps(run[r].doc)) :
              /\ ContentOps(run[r].doc)[j].kind = "disclaimer"
              /\ ContentOps(run[r].doc)[j].y < mm(200)

\* A finished report without defects.
C7_WitnessEmpty ==
    \E r \in RunIds : run[r].pc = "done" /\ run[r].input = <<>> /\ Len(run[r].doc) >= 1

\* C8: a defect whose image does not decode does not abort the run: the
\* placeholder is written in the place of the image, and the run goes on
\* to the description, the later defects and the footers, and ends in
\* success.  So no run ends in the catch of the handler, no payload that
\* failed to decode is drawn as an image, and every defect whose image
\* step is over has exactly one image or placeholder.
C8_GracefulDegradation ==
    \A r \in RunIds :
        LET ops == Flatten(run[r].doc)
        IN  /\ run[r].pc # "failed"
            /\ \A j \in 1..Len(ops) :
                  ops[j].kind = "image" => ImageInfo(ops[j].s).probe # "error"
            /\ run[r].pc \in {"await", "done"} =>
                  \A n \in 1..run[r].i :
                      Len(SelectSeq(ops, LAMBDA o : o.kind \in {"image", "placeholder"}
                                                     /\ o.n = n)) = 1

\* C9: every run that was started finishes, in success or in error; a
\* probe that fires neither load nor error does not hold it up.  A run
\* leaves an await only by an event that the handler armed to resume it
\* (script.js:552-553 arm load and error, and nothing else); so at every
\* await of a run, the image it waits for is one that fires load or error.
Probing(r) == ImageInfo(run[r].img.src).probe

C9_NoStalling ==
    \A r \in RunIds : run[r].pc = "await" => Probing(r) \in {"load", "error"}

\* C10: in the saved PDF of N pages, page i carries "Page i of N" exactly
\* once, N is the number of pages of the document, and no page is added
\* after the footers.
C10_FooterPageNumbers ==
    \A r \in RunIds :
        run[r].pc = "done" =>
            LET d == run[r].doc
                N == run[r].saves[Len(run[r].saves)].pages
            IN  /\ Len(run[r].saves) = 1
                /\ N = Len(d)
                /\ \A p \in 1..N :
                      LET nos == SelectSeq(d[p], LAMBDA o : o.kind = "pageno")
                      IN  Len(nos) = 1 /\ nos[1].n = p /\ nos[1].a = N

\* A saved report of three pages or more.
C10_Witness ==
    \E r \in RunIds : run[r].pc = "done" /\ Len(run[r].doc) >= 3

\* C11: the timestamp of the footer is read from the clock once, when the
\* footers are stamped, and every page of the saved PDF carries that one
\* string, however far the clock moves while the pages are stamped.
C11_FooterTimestamp ==
    \A r \in RunIds :
        run[r].pc = "done" =>
            LET ts == KindOps(run[r].doc, {"timestamp"})
            IN  \A j \in 1..Len(ts) : ts[j].a = ts[1].a

\* C12: a run ends in exactly one of two ways.  Either the whole document
\* is saved, exactly once, after the composition and the footers of every
\* page, and the status shows the success of that run; or nothing is saved
\* and the status shows the error of that run.  doc.save is never called in
\* a run that is not complete, nor in a run that reports an error.
C12_NoPartialSuccess ==
    [][\A r \in RunIds :
          LET was == run[r]
              now == run'[r]
              ops == Flatten(now.doc)
          IN  /\ now.pc # "done" => now.saves = <<>>
              /\ now.pc = "done" =>
                    /\ Len(now.saves) = 1
                    /\ now.saves[1].pages = Len(now.doc)
                    /\ \A p \in 1..Len(now.doc) :
                          \E j \in 1..Len(now.doc[p]) : now.doc[p][j].kind = "timestamp"
                    /\ \A j \in 1..Len(ops) :
                          ops[j].kind = "heading" =>
                              /\ \E k \in j + 1..Len(ops) :
                                    ops[k].kind \in {"image", "placeholder"} /\ ops[k].n = ops[j].n
                              /\ \E k \in j + 1..Len(ops) :
                                    ops[k].kind = "description" /\ ops[k].n = ops[j].n
              /\ (was.pc # "done" /\ now.pc = "done") =>
                    status' = [type |-> "success", run |-> r] /\ r \in timers'
              /\ (was.pc # "failed" /\ now.pc = "failed") =>
                    status' = [type |-> "error", run |-> r]
              /\ was.pc \in {"done", "failed"} => now = was]_vars

\* One run has ended in success with defects in its report, another in error.
C12_Witness ==
    \E r \in RunIds, q \in RunIds :
        /\ run[r].pc = "done"
        /\ KindOps(run[r].doc, {"description"}) # <<>>
        /\ run[q].pc = "failed"

\* C13: the probes of a run are sequential.  A run has a probe outstanding
\* exactly when it is at its await, and then only one: the probes it has
\* started (one per heading) are one more than the placements it has made.
\* The probe of a defect starts only when every earlier defect of the run
\* has its image or placeholder, its description and its separator in the
\* document.  While the probe is outstanding nothing of the run changes,
\* neither its cursor nor its pages, until that probe is settled and the
\* defect it was for is placed.
Placements(d) == KindOps(d, {"image", "placeholder"})

C13_SequentialProbing ==
    [][\A r \in RunIds :
          LET was == run[r]
              now == run'[r]
              ops == Flatten(now.doc)
              heads == KindOps(now.doc, {"heading"})
          IN  /\ Len(heads) - Len(Placements(now.doc)) = IF now.pc = "await" THEN 1 ELSE 0
              /\ now.pc = "await" =>
                    /\ ops[Len(ops)].kind = "heading"
                    /\ ops[Len(ops)].n = now.i + 1
                    /\ Len(heads) = now.i + 1
                    /\ \A n \in 1..now.i :
                          \A kinds \in {{"image", "placeholder"}, {"description"}, {"separator"}} :
                              \E j \in 1..Len(ops) : ops[j].kind \in kinds /\ ops[j].n = n
              /\ was.pc = "await" =>
                    \/ now = was
                    \/ /\ Len(Placements(now.doc)) >= Len(Placements(was.doc)) + 1
                       /\ Placements(now.doc)[Len(Placements(was.doc)) + 1].n = was.i + 1]_vars

\* A run awaits the probe of its second defect while another run awaits too.
C13_Witness ==
    \E r \in RunIds, q \in RunIds :
        /\ r # q
        /\ run[r].pc = "await"
        /\ run[r].i = 1
        /\ run[q].pc = "await"

\* C14: one run at a time.  From the click on generatePdfBtn until its run
\* has ended in success or in error no second run starts: at no time are
\* two runs in progress.
InProgress(r) == run[r].pc \notin {"idle", "done", "failed"}

C14_SingleRun == Cardinality({r \in RunIds : InProgress(r)}) <= 1

\* C15: a run renders the defect list as it was at the click.  Defects
\* added or removed while the run is suspended change neither the defects
\* it renders nor their numbers, and the "N Total" of its section header
\* is the number of defect sections it renders.
Rendered(d) == KindOps(d, {"heading"})

C15_InputSnapshot ==
    \A r \in RunIds :
        run[r].pc = "done" =>
            /\ [j \in 1..Len(Rendered(run[r].doc)) |-> Rendered(run[r].doc)[j].a] =
               [j \in 1..Len(run[r].input) |-> run[r].input[j].id]
            /\ \A j \in 1..Len(Rendered(run[r].doc)) : Rendered(run[r].doc)[j].n = j
            /\ \A o \in {KindOps(run[r].doc, {"section"})[j] :
                            j \in 1..Len(KindOps(run[r].doc, {"section"}))} :
                  o.s = DefectsTitle => o.n = Len(Rendered(run[r].doc))

\* C16: the contact line of the header.  With phone and e-mail both empty
\* no contact line is drawn and the cursor does not move for it: the title
\* follows the company name as if there were no such line.  With one of
\* them filled there is exactly one contact line, holding that value alone;
\* with both, the two values joined by " | "; and the cursor moves 8 mm on.
C16_ContactLine ==
    [][(run[1].pc = "header" /\ run[1].phase = "write") =>
          LET y0 == run[1].yPos
              ops == Flatten(run'[1].doc)
              contact == KindOps(run'[1].doc, {"contact"})
              title == KindOps(run'[1].doc, {"title"})
              phone == form.companyPhone
              email == form.companyEmail
              advance == IF phone = "" /\ email = "" THEN 0 ELSE mm(8)
          IN  /\ Len(contact) = IF phone = "" /\ email = "" THEN 0 ELSE 1
              /\ contact # <<>> =>
                    /\ contact[1].y = y0 + mm(10)
                    /\ contact[1].s = CASE phone # "" /\ email # "" -> "555 | a@b"
                                        [] phone # "" /\ email = "" -> "555"
                                        [] phone = "" /\ email # "" -> "a@b"
              /\ Len(ops) = 3 + Len(contact)
              /\ Len(title) = 1
              /\ title[1].y = y0 + mm(10) + advance + mm(5)
              /\ run'[1].yPos = y0 + mm(10) + advance + mm(20)]_vars

\* Reports with no contact line, with the phone alone, with the e-mail
\* alone, and with both.
C16_Witness ==
    /\ run[1].pc = "done"
    /\ form.companyPhone = ""
    /\ form.companyEmail # ""
    /\ KindOps(run[1].doc, {"contact"}) # <<>>

C16_WitnessEmpty ==
    /\ run[1].pc = "done"
    /\ form.companyPhone = ""
    /\ form.companyEmail = ""
    /\ KindOps(run[1].doc, {"title"}) # <<>>

\* C17: the ids of the defects.  The defects of the list have pairwise
\* distinct ids, in increasing order of their addition; a defect that is
\* added gets an id greater than every id given before, also those of the
\* defects that were removed since: no id is given twice.
C17_DefectIds ==
    [][/\ defectCounter' >= defectCounter
       /\ \A j \in 1..Len(defects') :
             /\ defects'[j].id >= 1
             /\ defects'[j].id <= defectCounter'
             /\ \A k \in 1..Len(defects') : j < k => defects'[j].id < defects'[k].id
             /\ (\A k \in 1..Len(defects) : defects[k].id # defects'[j].id) =>
                   /\ defects'[j].id > defectCounter
                   /\ j = Len(defects')]_vars

\* A defect was added after the removal of an earlier one.
C17_Witness ==
    /\ defectCounter = 2
    /\ Len(defects) = 1
    /\ defects[1].id = 2
    /\ adds = 2
    /\ clicks = 3

C18_WitnessSamePage ==
    /\ run[1].pc = "done"
    /\ KindOps(run[1].doc, {"continued"}) = <<>>
    /\ Len(KindOps(run[1].doc, {"image"})) = 2

\* C19: the metadata of a run is fixed at its click.  Whatever is typed in
\* the form while the run is suspended at an image probe, every company
\* name, contact line, title, client and inspection value, table value and
\* disclaimer line of its document is that of the form as it was at the
\* click, and each is there when the form at the click had it.
RowField(m, k) ==
    CASE k = 0 -> m.attendance
      [] k = 1 -> m.occupancy
      [] k = 2 -> m.buildingType
      [] k = 3 -> m.weatherCondition

C19_MetadataAtClick ==
    \A r \in RunIds :
        run[r].pc # "idle" =>
            LET m == run[r].meta
                d == run[r].doc
                strings(kind) == {o.s : o \in {KindOps(d, {kind})[j] :
                                                  j \in 1..Len(KindOps(d, {kind}))}}
                values == KindOps(d, {"value"})
            IN  /\ strings("company") =
                      {IF m.companyName # "" THEN m.companyName ELSE "Inspection Company"}
                /\ strings("title") =
                      {IF m.reportTitle # "" THEN m.reportTitle
                       ELSE "Home Defect Inspection Report"}
                /\ strings("contact") =
                      IF m.companyPhone # "" /\ m.companyEmail # ""
                      THEN {m.companyPhone \o " | " \o m.companyEmail}
                      ELSE {m.companyPhone, m.companyEmail} \ {""}
                /\ [j \in 1..Len(values) |-> <<values[j].s, values[j].b>>] =
                      (IF m.clientName # "" THEN <<<<m.clientName, 0>>>> ELSE <<>>)
                      \o (IF m.clientAddress # NoText
                          THEN <<<<"", m.clientAddress.n>>>> ELSE <<>>)
                      \o (IF m.inspectionDate # ""
                          THEN <<<<FormatDate(m.inspectionDate), 0>>>> ELSE <<>>)
                      \o (IF m.inspectorName # "" THEN <<<<m.inspectorName, 0>>>> ELSE <<>>)
                      \o (IF m.inspectorCredentials # NoText
                          THEN <<<<"", m.inspectorCredentials.n>>>> ELSE <<>>)
                /\ [j \in 1..Len(KindOps(d, {"rowvalue"})) |-> KindOps(d, {"rowvalue"})[j].s] =
                      [k \in 1..4 |-> IF RowField(m, k - 1) # "" THEN RowField(m, k - 1)
                                      ELSE "N/A"]
                /\ Len(KindOps(d, {"disclaimer"})) =
                      Len(splitTextToSize(m.disclaimer, contentWidth))
                /\ KindOps(d, {"disclaimer"}) # <<>> =>
                      KindOps(d, {"disclaimer"})[Len(KindOps(d, {"disclaimer"}))].b =
                          m.disclaimer.n

\* The form was edited while a run awaited the image of its second defect,
\* and the run has ended since.
C19_Witness ==
    \E r \in RunIds, q \in RunIds :
        /\ run[r].pc = "done"
        /\ run[r].meta # form
        /\ run[q].pc = "await"
        /\ run[q].i = 1
        /\ run[q].meta # form
        /\ run[q].meta # run[r].meta

\* C20: the separators.  A separator follows the description of a defect
\* exactly when another defect is rendered after it: a report with N >= 1
\* defect sections has N - 1 separators, one after each section but the
\* last, and none after the last.
C20_Separators ==
    \A r \in RunIds :
        run[r].pc = "done" =>
            LET ops == Flatten(run[r].doc)
                N == Len(KindOps(run[r].doc, {"heading"}))
                seps == KindOps(run[r].doc, {"separator"})
            IN  /\ N >= 1 => Len(seps) = N - 1
                /\ N = 0 => seps = <<>>
                /\ \A j \in 1..Len(seps) : seps[j].n = j
                /\ \A j \in 1..Len(ops) :
                      ops[j].kind = "separator" =>
                          /\ \E k \in 1..j - 1 :
                                /\ ops[k].kind = "description"
                                /\ ops[k].n = ops[j].n
                                /\ \A l \in k + 1..j - 1 : ops[l].kind \notin DefectKinds
                          /\ \E k \in j + 1..Len(ops) :
                                ops[k].kind = "heading" /\ ops[k].n = ops[j].n + 1

\* A report of two defect sections whose list changed while it was composed.
C20_Witness ==
    \E r \in RunIds :
        /\ run[r].pc = "done"
        /\ Len(KindOps(run[r].doc, {"heading"})) = 2
        /\ Len(run[r].input) # 2

\* A report of one defect section.
C20_WitnessOne ==
    \E r \in RunIds :
        /\ run[r].pc = "done"
        /\ Len(KindOps(run[r].doc, {"heading"})) = 1
        /\ Len(run[r].input) = 2

\* C21: the timer of a run hides only the message of that run.  When the
\* hideStatus that a successful run scheduled takes a status off the
\* screen, that status is the success message of the same run: never the
\* "loading" status, the error message or the success message of a run
\* that was started after it.
C21_StatusOwnership ==
    [][\A r \in RunIds :
          (r \in timers /\ r \notin timers' /\ status.type # "hidden"
             /\ status'.type = "hidden") =>
              status = [type |-> "success", run |-> r]]_vars

\* C22: the images stay in the printable area.  Wherever the cursor is when
\* the loop comes to a defect, the image that decoded is drawn with its top
\* at or below the top margin and its bottom, top + scaledHeight in
\* binary64, at or above pageHeight - margin; so it crosses neither the
\* bottom margin nor the footer lines at pageHeight - 10 and pageHeight - 6.
C22_ImageInPrintableArea ==
    [][(run[1].pc = "image" /\ run[1].phase = "write" /\ run[1].img.width > 0) =>
          LET page == run'[1].doc[Len(run'[1].doc)]
              image == page[Len(page)]
              scaledHeight == ScaledSize[run[1].img.width, run[1].img.height].height
          IN  /\ image.kind = "image"
              /\ image.y >= margin
              /\ image.y < pageHeight - margin
              /\ Cmp(Shift(scaledHeight, 1), Num(pageHeight - margin - image.y)) <= 0
              /\ image.y + image.b <= pageHeight - margin
              /\ image.y + image.b < pageHeight - mm(10)]_vars

\* An image 80 mm high was drawn as low as the page-fit test lets it be.
C22_Witness ==
    /\ run[1].pc = "done"
    /\ \E j \in 1..Len(KindOps(run[1].doc, {"image"})) :
          LET o == KindOps(run[1].doc, {"image"})[j]
          IN  o.b = mm(80) /\ o.y + o.b + mm(20) = pageHeight - margin

\* An image 80 mm high was drawn on a new page under the repeated heading.
C22_WitnessNewPage ==
    /\ run[1].pc = "done"
    /\ KindOps(run[1].doc, {"continued"}) # <<>>
    /\ \E j \in 1..Len(KindOps(run[1].doc, {"image"})) :
          LET o == KindOps(run[1].doc, {"image"})[j]
          IN  o.b = mm(80) /\ o.y = margin + mm(8)

====
